---------------------------- MODULE Spec2Model ----------------------------
(***************************************************************************)
(* Diagram-block normalisation, notes-closure validation and the mermaid   *)
(* processing pipeline of deck_generation.                                 *)
(*                                                                         *)
(* A markdown text is a sequence of characters (one-character strings), as *)
(* the Python code sees it; the regular expression of                      *)
(* clean_mermaid_blocks is modelled by a matcher over those characters.    *)
(***************************************************************************)
EXTENDS Integers, Sequences, FiniteSets, TLC

VARIABLES
    content,      \* normalizer runs: the document handed to clean_mermaid_blocks
    version,      \* normalizer runs: "modules" (src/modules/mermaid.py) or "legacy" (src/mermaid.py)
    passes,       \* normalizer runs: the outputs of successive applications
    vcontent,     \* validator runs: the document handed to validate_notes_closure
    report,       \* validator runs: NoValue, or the (is_valid, errors) pair returned
    pc,           \* pipeline runs: position inside process_mermaid_diagrams
    slide_content,\* pipeline runs: the argument of process_mermaid_diagrams
    requests,     \* pipeline runs: the external requests issued so far
    responses,    \* pipeline runs: what the external service answered, one per request
    enhanced_content,   \* pipeline runs: local of process_mermaid_diagrams
    generation_usage,   \* pipeline runs: local of process_mermaid_diagrams
    final_content,      \* pipeline runs: local of process_mermaid_diagrams
    validation_usage,   \* pipeline runs: local of process_mermaid_diagrams
    returned,     \* pipeline runs: NoValue, or the tuple process_mermaid_diagrams returned
    trace,        \* pipeline runs: the requests sent and the routines run, in order
    config,       \* script runs: the user input of main.py (user_prompt, markdown_path, mermaid)
    at,           \* script runs: the position of main.py
    issued,       \* script runs: the requests get_response sent so far
    outstanding,  \* script runs: how many requests wait for their answer
    namespace,    \* script runs: the module-level names of main.py, NoValue while unbound
    files,        \* script runs: what FileIO.fwrite stored under each output file name
    conversions,  \* script runs: the converter runs started by convert_to_ppt
    exception     \* script runs: "none", or the exception that ended the script

vars == <<content, version, passes, vcontent, report, pc, slide_content, requests,
          responses, enhanced_content, generation_usage, final_content, validation_usage, returned, trace,
          config, at, issued, outstanding, namespace, files, conversions, exception>>

normVars == <<content, version, passes>>
valVars  == <<vcontent, report>>
procVars == <<pc, slide_content, requests, responses, enhanced_content, generation_usage,
              final_content, validation_usage, returned, trace>>
mainVars == <<config, at, issued, outstanding, namespace, files, conversions, exception>>

\* Python values whose type the code leaves open: None (nothing assigned or returned
\* yet), a str, a tuple
NoValue     == [type |-> "none"]
PyStr(s)    == [type |-> "str", val |-> s]
PyTuple(t)  == [type |-> "tuple", val |-> t]

-----------------------------------------------------------------------------
(* Characters and Python string primitives                                 *)

\* Characters are one-character strings; the backquote character (U+0060), which a
\* TLA+ string cannot hold, is written "BQ".
NL == "\n"
BT == "BQ"
Marker  == <<BT, BT, BT>>
Mermaid == <<"m", "e", "r", "m", "a", "i", "d">>

\* the characters str.strip() removes that the modelled documents contain
Whitespace == {" ", NL}

\* s[i..] begins with p (i is 1-based)
MatchAt(s, i, p) ==
    /\ i >= 1
    /\ i + Len(p) - 1 <= Len(s)
    /\ \A k \in 1..Len(p) : s[i + k - 1] = p[k]

startswith(s, p) == MatchAt(s, 1, p)

strip(s) ==
    LET keep == {i \in 1..Len(s) : s[i] \notin Whitespace}
    IN  IF keep = {} THEN <<>>
        ELSE LET lo == CHOOSE i \in keep : \A j \in keep : i <= j
                 hi == CHOOSE i \in keep : \A j \in keep : j <= i
             IN  SubSeq(s, lo, hi)

RECURSIVE split(_)
split(s) ==
    LET nls == {i \in 1..Len(s) : s[i] = NL}
    IN  IF nls = {} THEN <<s>>
        ELSE LET i == CHOOSE x \in nls : \A y \in nls : x <= y
             IN  <<SubSeq(s, 1, i - 1)>> \o split(SubSeq(s, i + 1, Len(s)))

RECURSIVE join(_)
join(lines) ==
    IF Len(lines) = 0 THEN <<>>
    ELSE IF Len(lines) = 1 THEN lines[1]
    ELSE lines[1] \o <<NL>> \o join(Tail(lines))

-----------------------------------------------------------------------------
(* clean_mermaid_blocks: the regular expression                            *)

\* the literal head of the pattern: three backquotes, "mermaid", newline
OpenLit  == Marker \o Mermaid \o <<NL>>
\* the literal that ends the lazy group: newline, three backquotes
CloseLit == <<NL>> \o Marker

\* the least member of a non-empty set of positions
Least(S) == CHOOSE i \in S : \A j \in S : i <= j

\* (.*?) under DOTALL followed by the closing literal: the lazy group ends at the
\* first position at or after from where CloseLit matches; 0 when there is none
GroupEnd(s, from) ==
    LET ends == {e \in from..Len(s) : MatchAt(s, e, CloseLit)}
    IN  IF ends = {} THEN 0 ELSE Least(ends)

\* number of consecutive newlines of s starting at position p
RECURSIVE Newlines(_, _)
Newlines(s, p) == IF p <= Len(s) /\ s[p] = NL THEN 1 + Newlines(s, p + 1) ELSE 0

\* the greedy tail (?:\n*BQBQBQ)* of the packaged pattern, entered at position p:
\* the position after the last repetition it matches
RECURSIVE TailModules(_, _)
TailModules(s, p) ==
    LET q == p + Newlines(s, p)
    IN  IF MatchAt(s, q, Marker) THEN TailModules(s, q + Len(Marker)) ELSE p

\* the greedy tail (?:\nBQBQBQ)* of the legacy pattern
RECURSIVE TailLegacy(_, _)
TailLegacy(s, p) ==
    IF MatchAt(s, p, CloseLit) THEN TailLegacy(s, p + Len(CloseLit)) ELSE p

\* (variant: the pattern without its tail of repeated closers)
no_pattern_tail(v, s, p) == p

PatternTail(v, s, p) == IF v = "modules" THEN TailModules(s, p) ELSE TailLegacy(s, p)

\* the leftmost match of the pattern at or after pos: [found, start, gfrom, gto, stop],
\* the group being s[gfrom..gto] and the match s[start..stop-1]
Search(v, s, pos) ==
    LET starts == {i \in pos..Len(s) :
                      /\ MatchAt(s, i, OpenLit)
                      /\ GroupEnd(s, i + Len(OpenLit)) # 0}
    IN  IF starts = {} THEN [found |-> FALSE]
        ELSE LET i == Least(starts)
                 e == GroupEnd(s, i + Len(OpenLit))
             IN  [found |-> TRUE, start |-> i, gfrom |-> i + Len(OpenLit), gto |-> e - 1,
                  stop |-> PatternTail(v, s, e + Len(CloseLit))]

\* the test of the loop of fix_mermaid_block on one stripped line
IsBacktickLine(stripped_line) ==
    \/ stripped_line = Marker
    \/ stripped_line = Marker \o Marker
    \/ startswith(stripped_line, Marker)

\* (variant: a blank line is put before the closer, and nothing is filtered)
pads_mermaid_block(group1) ==
    Marker \o Mermaid \o <<NL>> \o strip(group1) \o <<NL, NL>> \o Marker

fix_mermaid_block(group1) ==
    LET mermaid_content == strip(group1)
        lines == split(mermaid_content)
        RECURSIVE Loop(_)
        Loop(k) == IF k > Len(lines) THEN <<>>
                   ELSE (IF IsBacktickLine(strip(lines[k])) THEN <<>> ELSE <<lines[k]>>)
                        \o Loop(k + 1)
        cleaned_lines == Loop(1)
        cleaned_content == join(cleaned_lines)
    IN  Marker \o Mermaid \o <<NL>> \o cleaned_content \o <<NL>> \o Marker

\* re.sub(pattern, fix_mermaid_block, content, flags=re.DOTALL), resumed at pos
RECURSIVE re_sub(_, _, _)
re_sub(v, s, pos) ==
    LET m == Search(v, s, pos)
    IN  IF ~m.found THEN SubSeq(s, pos, Len(s))
        ELSE SubSeq(s, pos, m.start - 1)
               \o fix_mermaid_block(SubSeq(s, m.gfrom, m.gto))
               \o re_sub(v, s, m.stop)

\* src/modules/mermaid.py
clean_mermaid_blocks(c) == re_sub("modules", c, 1)

\* the look-back of the orphan pass: range(i - 1, max(-1, i - LookBack), -1)
LookBack == 10

\* the second pass of the legacy clean_mermaid_blocks over the lines of the
\* rewritten text (indices are 1-based here, 0-based in the source)
remove_orphans(cleaned_content) ==
    LET lines == split(cleaned_content)
        Max(a, b) == IF a >= b THEN a ELSE b
        prev_code_block(i) ==
            \E j \in (Max(0, i - LookBack) + 1)..(i - 1) :
                j >= 1 /\ startswith(strip(lines[j]), Marker)
        RECURSIVE Loop(_)
        Loop(i) ==
            IF i > Len(lines) THEN <<>>
            ELSE IF strip(lines[i]) = Marker /\ ~prev_code_block(i) THEN Loop(i + 1)
            ELSE <<lines[i]>> \o Loop(i + 1)
    IN  join(Loop(1))

\* src/mermaid.py
legacy_clean_mermaid_blocks(c) == remove_orphans(re_sub("legacy", c, 1))

-----------------------------------------------------------------------------
(* validate_notes_closure                                                  *)

SeparatorLit  == <<"-", "-", "-">>
NotesOpenLit  == <<":", ":", ":", " ", "n", "o", "t", "e", "s">>
NotesCloseLit == <<":", ":", ":">>

\* the texts of the four messages; a message is a record of the slide number, the
\* text and, where the source formats one, the line number
MsgSeparator   == "Notes section not closed before slide separator at line"
MsgAlreadyOpen == "Notes section already open at line"
MsgNoOpening   == "Closing ::: without opening notes section at line"
MsgEndOfDoc    == "Notes section not closed at end of document"

\* the locals of validate_notes_closure before the loop
\* (variant: the slide counter starts at 0)
zero_based_start == [errors |-> <<>>, notes_open |-> FALSE, slide_number |-> 0]

ValidatorStart == [errors |-> <<>>, notes_open |-> FALSE, slide_number |-> 1]

\* branch: stripped == "---"
\* (variant: notes_open is not reset)
no_reset_separator(st, i) ==
    [errors |-> IF st.notes_open
                THEN Append(st.errors, [slide |-> st.slide_number, text |-> MsgSeparator, line |-> i])
                ELSE st.errors,
     notes_open |-> st.notes_open,
     slide_number |-> st.slide_number + 1]

\* (variant: the slide number is incremented inside the if)
guarded_increment_separator(st, i) ==
    IF st.notes_open
    THEN [errors |-> Append(st.errors, [slide |-> st.slide_number, text |-> MsgSeparator, line |-> i]),
          notes_open |-> FALSE,
          slide_number |-> st.slide_number + 1]
    ELSE st

on_separator(st, i) ==
    [errors |-> IF st.notes_open
                THEN Append(st.errors, [slide |-> st.slide_number, text |-> MsgSeparator, line |-> i])
                ELSE st.errors,
     notes_open |-> FALSE,
     slide_number |-> st.slide_number + 1]

\* branch: stripped.startswith("::: notes")
\* (variant: an open directive met while notes are open raises nothing)
forgiving_notes_open(st, i) ==
    [errors |-> st.errors, notes_open |-> TRUE, slide_number |-> st.slide_number]

\* (variant: an open directive met while notes are open closes them)
toggling_notes_open(st, i) ==
    [errors |-> IF st.notes_open
                THEN Append(st.errors, [slide |-> st.slide_number, text |-> MsgAlreadyOpen, line |-> i])
                ELSE st.errors,
     notes_open |-> ~st.notes_open,
     slide_number |-> st.slide_number]

on_notes_open(st, i) ==
    [errors |-> IF st.notes_open
                THEN Append(st.errors, [slide |-> st.slide_number, text |-> MsgAlreadyOpen, line |-> i])
                ELSE st.errors,
     notes_open |-> TRUE,
     slide_number |-> st.slide_number]

\* branch: stripped == ":::"
\* (variant: the branch does nothing)
sticky_notes_close(st, i) == st

\* (variant: a close directive never raises a violation)
silent_notes_close(st, i) ==
    [errors |-> st.errors, notes_open |-> FALSE, slide_number |-> st.slide_number]

on_notes_close(st, i) ==
    IF ~st.notes_open
    THEN [errors |-> Append(st.errors, [slide |-> st.slide_number, text |-> MsgNoOpening, line |-> i]),
          notes_open |-> st.notes_open,
          slide_number |-> st.slide_number]
    ELSE [errors |-> st.errors, notes_open |-> FALSE, slide_number |-> st.slide_number]

\* the body of the loop for line number i (1-based, as enumerate(lines, 1))
validate_line(st, line, i) ==
    LET stripped == strip(line)
    IN  IF stripped = SeparatorLit THEN on_separator(st, i)
        ELSE IF startswith(stripped, NotesOpenLit) THEN on_notes_open(st, i)
        ELSE IF stripped = NotesCloseLit THEN on_notes_close(st, i)
        ELSE st

\* the locals after the first n lines
RECURSIVE ValidateLoop(_, _)
ValidateLoop(lines, n) ==
    IF n = 0 THEN ValidatorStart
    ELSE validate_line(ValidateLoop(lines, n - 1), lines[n], n)

\* the check after the loop
\* (variant: the end-of-document message is put in front of the list)
prepends_end_of_content(st) ==
    IF st.notes_open
    THEN <<[slide |-> st.slide_number, text |-> MsgEndOfDoc]>> \o st.errors
    ELSE st.errors

at_end_of_content(st) ==
    IF st.notes_open
    THEN Append(st.errors, [slide |-> st.slide_number, text |-> MsgEndOfDoc])
    ELSE st.errors

\* the (is_valid, errors) pair returned
validate_notes_closure(c) ==
    LET lines == split(c)
        errors == at_end_of_content(ValidateLoop(lines, Len(lines)))
    IN  <<Len(errors) = 0, errors>>

-----------------------------------------------------------------------------
(* Normalizer runs: a document is drawn, then clean_mermaid_blocks of one  *)
(* of the two versions is applied to it, and again to its own output.      *)

MaxLines  == 5
MaxPasses == 2

BlankLine    == <<>>
TextLine     == <<"a">>
IndentedLine == <<" ", "b">>
OpenerLine   == Marker \o Mermaid
BareLine     == Marker
IndentedBare == <<" ">> \o Marker

LineVocab == {BlankLine, TextLine, IndentedLine, OpenerLine, BareLine, IndentedBare}

\* all sequences over S of length 1..n
SeqsUpTo(S, n) == UNION {[1..k -> S] : k \in 1..n}

Documents == {join(ls) : ls \in SeqsUpTo(LineVocab, MaxLines)}

\* Single-block documents: an opener line, inner lines that carry no marker, k bare
\* marker lines, then nothing or one line of text
MaxInner   == 3
MaxClosers == 3
TrailingSpaceLine == <<"c", " ">>
InnerVocab == {BlankLine, TextLine, IndentedLine, TrailingSpaceLine}
InnerSeqs  == {<<>>} \cup SeqsUpTo(InnerVocab, MaxInner)
Closers(k) == [i \in 1..k |-> BareLine]
BlockLines(inner, k, post) == <<OpenerLine>> \o inner \o Closers(k) \o post
BlockDocuments ==
    {join(BlockLines(inner, k, post)) :
        inner \in InnerSeqs, k \in 1..MaxClosers, post \in {<<>>, <<TextLine>>}}

ProcIdle ==
    /\ pc = "idle"
    /\ slide_content = <<>>
    /\ requests = <<>>
    /\ responses = <<>>
    /\ enhanced_content = NoValue
    /\ generation_usage = NoValue
    /\ final_content = NoValue
    /\ validation_usage = NoValue
    /\ returned = NoValue
    /\ trace = <<>>

ValIdle ==
    /\ vcontent = <<>>
    /\ report = NoValue

NormIdle ==
    /\ content = <<>>
    /\ version = "modules"
    /\ passes = <<>>

MainIdle ==
    /\ config = NoValue
    /\ at = "idle"
    /\ issued = <<>>
    /\ outstanding = 0
    /\ namespace = NoValue
    /\ files = NoValue
    /\ conversions = <<>>
    /\ exception = "none"

InitNorm ==
    /\ content \in Documents \cup BlockDocuments
    /\ version \in {"modules", "legacy"}
    /\ passes = <<>>
    /\ ValIdle
    /\ ProcIdle
    /\ MainIdle

\* the text the next application receives
Current == IF passes = <<>> THEN content ELSE passes[Len(passes)]

CleanModules ==
    /\ version = "modules"
    /\ Len(passes) < MaxPasses
    /\ passes' = Append(passes, clean_mermaid_blocks(Current))
    /\ UNCHANGED <<content, version, valVars, procVars, mainVars>>

CleanLegacy ==
    /\ version = "legacy"
    /\ Len(passes) < MaxPasses
    /\ passes' = Append(passes, legacy_clean_mermaid_blocks(Current))
    /\ UNCHANGED <<content, version, valVars, procVars, mainVars>>

NextNorm == CleanModules \/ CleanLegacy

SpecNorm == InitNorm /\ [][NextNorm]_vars

-----------------------------------------------------------------------------
(* Validator runs: a document is drawn and validate_notes_closure is       *)
(* applied to it.                                                          *)

MaxVLines == 5

SeparatorLine  == SeparatorLit
NotesLine      == NotesOpenLit
TitledNotesLine == <<" ">> \o NotesOpenLit \o <<"x">>
CloseLine      == NotesCloseLit
PaddedCloseLine == <<" ">> \o NotesCloseLit

VLineVocab == {TextLine, SeparatorLine, NotesLine, TitledNotesLine, CloseLine,
               PaddedCloseLine}

VDocuments == {join(ls) : ls \in SeqsUpTo(VLineVocab, MaxVLines)}

InitVal ==
    /\ vcontent \in VDocuments
    /\ report = NoValue
    /\ NormIdle
    /\ ProcIdle
    /\ MainIdle

Validate ==
    /\ report.type = "none"
    /\ report' = PyTuple(validate_notes_closure(vcontent))
    /\ UNCHANGED <<vcontent, normVars, procVars, mainVars>>

NextVal == Validate

SpecVal == InitVal /\ [][NextVal]_vars

-----------------------------------------------------------------------------
(* Pipeline runs: process_mermaid_diagrams of src/modules/mermaid.py. The  *)
(* external text-generation service answers each request with a text and a *)
(* usage record, or the call raises.                                       *)

MaxTokens == 2

NotesDocOpen == join(<<TextLine, NotesLine, TextLine>>)
ResponseTexts ==
    { join(<<TextLine>>),
      join(<<OpenerLine, TextLine, BareLine, BareLine>>),
      join(<<OpenerLine, IndentedLine, BareLine, NotesLine, TextLine, CloseLine>>),
      NotesDocOpen }
SlideContents == {join(<<TextLine>>), join(<<TextLine, SeparatorLine, TextLine>>)}
Usages == [total_tokens : 0..MaxTokens]

GenerationContext == "Mermaid generation"
ValidationContext == "Mermaid validation"

\* LLMUtils.get_response up to the call of client.chat.completions.create: the
\* request carries the user prompt, which embeds the given text
get_response_request(context, embedded) == [context |-> context, embedded |-> embedded]

\* one entry of the trace: a request by its context, or a routine by its name,
\* with the text it was given
step(event, input) == [event |-> event, input |-> input]

InitProc ==
    /\ pc = "start"
    /\ slide_content \in SlideContents
    /\ requests = <<>>
    /\ responses = <<>>
    /\ enhanced_content = NoValue
    /\ generation_usage = NoValue
    /\ final_content = NoValue
    /\ validation_usage = NoValue
    /\ returned = NoValue
    /\ trace = <<>>
    /\ NormIdle
    /\ ValIdle
    /\ MainIdle

\* process_mermaid_diagrams is entered; generate_mermaid_diagrams issues its request
CallGeneration ==
    /\ pc = "start"
    /\ requests' = Append(requests, get_response_request(GenerationContext, slide_content))
    /\ trace' = Append(trace, step(GenerationContext, slide_content))
    /\ pc' = "await_generation"
    /\ UNCHANGED <<slide_content, responses, enhanced_content, generation_usage,
                   final_content, validation_usage, returned, normVars, valVars, mainVars>>

\* the first call returns: generate_mermaid_diagrams returns (enhanced_content, usage)
\* and validate_and_fix_diagrams(enhanced_content) issues its request
GenerationResponds ==
    /\ pc = "await_generation"
    /\ \E text \in ResponseTexts, usage \in Usages :
          /\ responses' = Append(responses, [ok |-> TRUE, text |-> text, usage |-> usage])
          /\ enhanced_content' = PyStr(text)
          /\ generation_usage' = usage
          /\ requests' = Append(requests, get_response_request(ValidationContext, text))
          /\ trace' = Append(trace, step(ValidationContext, text))
    /\ pc' = "await_validation"
    /\ UNCHANGED <<slide_content, final_content, validation_usage, returned, normVars, valVars, mainVars>>

\* (variant: the failure is swallowed and empty content is passed on)
GenerationFailsIntoPlaceholder ==
    /\ pc = "await_generation"
    /\ responses' = Append(responses, [ok |-> FALSE])
    /\ enhanced_content' = PyStr(<<>>)
    /\ generation_usage' = [total_tokens |-> 0]
    /\ requests' = Append(requests, get_response_request(ValidationContext, <<>>))
    /\ trace' = Append(trace, step(ValidationContext, <<>>))
    /\ pc' = "await_validation"
    /\ UNCHANGED <<slide_content, final_content, validation_usage, returned, normVars, valVars, mainVars>>

\* the first call raises: nothing catches the exception
GenerationFails ==
    /\ pc = "await_generation"
    /\ responses' = Append(responses, [ok |-> FALSE])
    /\ pc' = "raised"
    /\ UNCHANGED <<slide_content, requests, enhanced_content, generation_usage,
                   final_content, validation_usage, returned, trace, normVars, valVars, mainVars>>

\* the routines validate_and_fix_diagrams runs on the validated text, in order
validate_and_fix_steps(validated_content) ==
    <<step("clean_mermaid_blocks", validated_content),
      step("validate_notes_closure", clean_mermaid_blocks(validated_content))>>

\* what validate_and_fix_diagrams makes of the validated text: cleaned_content is
\* assigned the normalized text and then the value of validate_notes_closure
validate_and_fix_result(validated_content) ==
    LET cleaned_content == clean_mermaid_blocks(validated_content)
    IN  PyTuple(validate_notes_closure(cleaned_content))

\* the tuple process_mermaid_diagrams returns
\* (variant: the enhanced content is normalized before it is returned)
returns_normalized_enhanced(enhanced, final, gen_usage, val_usage) ==
    PyTuple(<<PyStr(clean_mermaid_blocks(enhanced.val)), final,
              [generation |-> gen_usage, validation |-> val_usage,
               total_tokens |-> gen_usage.total_tokens + val_usage.total_tokens]>>)

\* (variant: the total counts the generation call only)
counts_generation_only(enhanced, final, gen_usage, val_usage) ==
    PyTuple(<<enhanced, final,
              [generation |-> gen_usage, validation |-> val_usage,
               total_tokens |-> gen_usage.total_tokens]>>)

process_result(enhanced, final, gen_usage, val_usage) ==
    PyTuple(<<enhanced, final,
              [generation |-> gen_usage, validation |-> val_usage,
               total_tokens |-> gen_usage.total_tokens + val_usage.total_tokens]>>)

\* (variant: a report with violations makes the run raise)
ValidationRejects ==
    /\ pc = "await_validation"
    /\ \E text \in ResponseTexts, usage \in Usages :
          /\ responses' = Append(responses, [ok |-> TRUE, text |-> text, usage |-> usage])
          /\ trace' = trace \o validate_and_fix_steps(text)
          /\ IF validate_notes_closure(clean_mermaid_blocks(text))[1]
             THEN /\ final_content' = validate_and_fix_result(text)
                  /\ validation_usage' = usage
                  /\ returned' = process_result(enhanced_content, validate_and_fix_result(text),
                                                generation_usage, usage)
                  /\ pc' = "returned"
             ELSE /\ pc' = "raised"
                  /\ UNCHANGED <<final_content, validation_usage, returned>>
    /\ UNCHANGED <<slide_content, requests, enhanced_content, generation_usage,
                   normVars, valVars, mainVars>>

\* the second call returns: validate_and_fix_diagrams returns and
\* process_mermaid_diagrams builds total_usage and returns
ValidationResponds ==
    /\ pc = "await_validation"
    /\ \E text \in ResponseTexts, usage \in Usages :
          /\ responses' = Append(responses, [ok |-> TRUE, text |-> text, usage |-> usage])
          /\ final_content' = validate_and_fix_result(text)
          /\ validation_usage' = usage
          /\ returned' = process_result(enhanced_content, validate_and_fix_result(text),
                                        generation_usage, usage)
          /\ trace' = trace \o validate_and_fix_steps(text)
    /\ pc' = "returned"
    /\ UNCHANGED <<slide_content, requests, enhanced_content, generation_usage,
                   normVars, valVars, mainVars>>

\* the second call raises: nothing catches the exception
ValidationFails ==
    /\ pc = "await_validation"
    /\ responses' = Append(responses, [ok |-> FALSE])
    /\ pc' = "raised"
    /\ UNCHANGED <<slide_content, requests, enhanced_content, generation_usage,
                   final_content, validation_usage, returned, trace, normVars, valVars, mainVars>>

NextProc ==
    \/ CallGeneration
    \/ GenerationResponds
    \/ GenerationFails
    \/ ValidationResponds
    \/ ValidationFails

SpecProc == InitProc /\ [][NextProc]_vars

-----------------------------------------------------------------------------
(* Pipeline runs of the legacy class: process_mermaid_diagrams of          *)
(* src/mermaid.py, on the same variables                                   *)

\* process_mermaid_diagrams is entered; generate_mermaid_diagrams issues its request
LegacyCallGeneration ==
    /\ pc = "start"
    /\ requests' = Append(requests, get_response_request(GenerationContext, slide_content))
    /\ trace' = Append(trace, step(GenerationContext, slide_content))
    /\ pc' = "await_generation"
    /\ UNCHANGED <<slide_content, responses, enhanced_content, generation_usage,
                   final_content, validation_usage, returned, normVars, valVars, mainVars>>

\* what validate_and_fix_diagrams does before its request: it normalizes the content
\* it was given and embeds the normalized text
legacy_validation_input(content_) == legacy_clean_mermaid_blocks(content_)

\* the first call returns; validate_and_fix_diagrams(enhanced_content) normalizes
\* its argument and issues its request
LegacyGenerationResponds ==
    /\ pc = "await_generation"
    /\ \E text \in ResponseTexts, usage \in Usages :
          /\ responses' = Append(responses, [ok |-> TRUE, text |-> text, usage |-> usage])
          /\ enhanced_content' = PyStr(text)
          /\ generation_usage' = usage
          /\ requests' = Append(requests,
                get_response_request(ValidationContext, legacy_validation_input(text)))
          /\ trace' = trace \o <<step("clean_mermaid_blocks", text),
                                 step(ValidationContext, legacy_validation_input(text))>>
    /\ pc' = "await_validation"
    /\ UNCHANGED <<slide_content, final_content, validation_usage, returned, normVars, valVars, mainVars>>

\* the first call raises: nothing catches the exception
LegacyGenerationFails ==
    /\ pc = "await_generation"
    /\ responses' = Append(responses, [ok |-> FALSE])
    /\ pc' = "raised"
    /\ UNCHANGED <<slide_content, requests, enhanced_content, generation_usage,
                   final_content, validation_usage, returned, trace, normVars, valVars, mainVars>>

\* the pair the legacy process_mermaid_diagrams returns
legacy_process_result(final, gen_usage, val_usage) ==
    PyTuple(<<final,
              [generation |-> gen_usage, validation |-> val_usage,
               total_tokens |-> gen_usage.total_tokens + val_usage.total_tokens]>>)

\* the second call returns: validate_and_fix_diagrams returns the answer as it is
\* and process_mermaid_diagrams builds total_usage and returns
LegacyValidationResponds ==
    /\ pc = "await_validation"
    /\ \E text \in ResponseTexts, usage \in Usages :
          /\ responses' = Append(responses, [ok |-> TRUE, text |-> text, usage |-> usage])
          /\ final_content' = PyStr(text)
          /\ validation_usage' = usage
          /\ returned' = legacy_process_result(PyStr(text), generation_usage, usage)
    /\ pc' = "returned"
    /\ UNCHANGED <<slide_content, requests, enhanced_content, generation_usage, trace,
                   normVars, valVars, mainVars>>

\* the second call raises: nothing catches the exception
LegacyValidationFails ==
    /\ pc = "await_validation"
    /\ responses' = Append(responses, [ok |-> FALSE])
    /\ pc' = "raised"
    /\ UNCHANGED <<slide_content, requests, enhanced_content, generation_usage,
                   final_content, validation_usage, returned, trace, normVars, valVars, mainVars>>

NextLegacyProc ==
    \/ LegacyCallGeneration
    \/ LegacyGenerationResponds
    \/ LegacyGenerationFails
    \/ LegacyValidationResponds
    \/ LegacyValidationFails

SpecLegacyProc == InitProc /\ [][NextLegacyProc]_vars

-----------------------------------------------------------------------------
(* End-to-end runs: a one-slide document with a diagram block that holds a *)
(* stray bare marker line, followed by a closed notes region, is           *)
(* normalized by clean_mermaid_blocks (src/modules/mermaid.py) and the     *)
(* output is validated.                                                    *)

\* seq with x inserted after its first p elements
InsertAt(seq, p, x) == SubSeq(seq, 1, p) \o <<x>> \o SubSeq(seq, p + 1, Len(seq))

ScenarioInner == SeqsUpTo({TextLine, IndentedLine}, MaxInner)
\* the inner lines and the position of the stray line among them
ScenarioCases == UNION {{<<inner, p>> : p \in 0..Len(inner)} : inner \in ScenarioInner}
ScenarioDocuments ==
    {join(pre \o <<OpenerLine>> \o InsertAt(c[1], c[2], BareLine) \o <<BareLine>>
              \o <<NotesLine, TextLine, CloseLine>>) :
        pre \in {<<>>, <<TextLine>>},
        c \in ScenarioCases}

InitScenario ==
    /\ content \in ScenarioDocuments
    /\ version = "modules"
    /\ passes = <<>>
    /\ ValIdle
    /\ ProcIdle
    /\ MainIdle

ScenarioNormalize ==
    /\ passes = <<>>
    /\ passes' = <<clean_mermaid_blocks(content)>>
    /\ UNCHANGED <<content, version, valVars, procVars, mainVars>>

ScenarioValidate ==
    /\ passes # <<>>
    /\ report.type = "none"
    /\ vcontent' = passes[1]
    /\ report' = PyTuple(validate_notes_closure(passes[1]))
    /\ UNCHANGED <<normVars, procVars, mainVars>>

NextScenario == ScenarioNormalize \/ ScenarioValidate

SpecScenario == InitScenario /\ [][NextScenario]_vars

-----------------------------------------------------------------------------
(* Script runs: main.py from the user input to the last conversion         *)

\* the user input at the top of main.py: a prompt or the empty text, a reference
\* path or None, the diagram switch
ReferencePath == PyStr("reference.md")
Configs ==
    [user_prompt : {PyStr(""), PyStr("topic")},
     markdown_path : {NoValue, ReferencePath},
     mermaid : BOOLEAN]

\* what FileIO.fread finds under the reference path, and the texts the service answers
ReferenceText == "reference"
Answers == {"answer A", "answer B"}

\* the module-level names the script binds as it runs
Names ==
    {"markdown_content", "slide_structure_response", "slide_content_response",
     "few_shot_examples", "mermaid_content_response", "checker_content_response"}

\* the files the script writes
slide_content_filename == "slide_content_response.md"
final_content_filename == "final_content_response.md"
FileNames == {slide_content_filename, final_content_filename}

\* `if markdown_path:` of main.py
truthy(v) == v # NoValue /\ v.val # ""

\* markdown_content after lines 102-105
read_markdown(markdown_path) ==
    IF truthy(markdown_path) THEN PyStr(ReferenceText) ELSE PyStr("")

\* an f-string over module-level names: evaluating it raises NameError when one
\* of them is unbound, else it embeds their values in the order written
raises_name_error(ns, used) == \E i \in 1..Len(used) : ns[used[i]] = NoValue
fstring(ns, used) == [i \in 1..Len(used) |-> ns[used[i]].val]

\* get_response up to client.chat.completions.create: one request with the user prompt
request(stage, user) == [stage |-> stage, user |-> user]

\* the user prompts of the four stages, by the values they embed
ignores_structure_response(ns) == fstring(ns, <<"markdown_content", "markdown_content">>)
slide_structure_user_prompt(ns, up) == <<up.val>> \o fstring(ns, <<"markdown_content">>)
slide_content_user_prompt(ns) == fstring(ns, <<"slide_structure_response", "markdown_content">>)
mermaid_user_prompt(ns) == fstring(ns, <<"slide_content_response">>)
checker_user_prompt(ns) == fstring(ns, <<"mermaid_content_response">>)

\* what the converter process can do: run to the end, be missing, exit non-zero
ConverterOutcomes == {"ok", "FileNotFoundError", "CalledProcessError"}

\* convert_to_ppt: the exception that leaves it, "none" when it returns
propagating_convert_to_ppt(outcome) == IF outcome = "ok" THEN "none" ELSE outcome
convert_to_ppt(outcome) ==
    CASE outcome = "ok" -> "none"
      [] outcome = "FileNotFoundError" -> "none"
      [] outcome = "CalledProcessError" -> "none"
      [] OTHER -> outcome

\* subprocess.run is entered for a file: the run records what is stored under the name
started(fs, input) == [input |-> input, found |-> fs[input], outcome |-> "running"]

InitMain ==
    /\ config \in Configs
    /\ at = "slide_structure"
    /\ issued = <<>>
    /\ outstanding = 0
    /\ namespace = [n \in Names |-> NoValue]
    /\ files = [f \in FileNames |-> NoValue]
    /\ conversions = <<>>
    /\ exception = "none"
    /\ NormIdle
    /\ ValIdle
    /\ ProcIdle

\* 1. slide structure: read the reference, send the outline request
StructureStage ==
    /\ at = "slide_structure"
    /\ LET ns == [namespace EXCEPT !["markdown_content"] = read_markdown(config.markdown_path)]
       IN /\ namespace' = ns
          /\ issued' = Append(issued,
                 request("slide_structure", slide_structure_user_prompt(ns, config.user_prompt)))
    /\ outstanding' = outstanding + 1
    /\ at' = "await_slide_structure"
    /\ UNCHANGED <<config, files, conversions, exception, normVars, valVars, procVars>>

Awaiting ==
    {"await_slide_structure", "await_slide_content", "await_mermaid_content", "await_checker_content"}
\* the name the answer is assigned to, and where the script goes on
Target(a) ==
    CASE a = "await_slide_structure" -> "slide_structure_response"
      [] a = "await_slide_content" -> "slide_content_response"
      [] a = "await_mermaid_content" -> "mermaid_content_response"
      [] a = "await_checker_content" -> "checker_content_response"
After(a) ==
    CASE a = "await_slide_structure" -> "slide_content"
      [] a = "await_slide_content" -> "save_slide_content"
      [] a = "await_mermaid_content" -> "branch"
      [] a = "await_checker_content" -> "save_final_content"

\* get_response returns the text of the answer
GetResponseReturns ==
    /\ at \in Awaiting
    /\ \E text \in Answers : namespace' = [namespace EXCEPT ![Target(at)] = PyStr(text)]
    /\ outstanding' = outstanding - 1
    /\ at' = After(at)
    /\ UNCHANGED <<config, issued, files, conversions, exception, normVars, valVars, procVars>>

\* the client raises inside get_response; nothing in main.py catches it
GetResponseRaises ==
    /\ at \in Awaiting
    /\ outstanding' = outstanding - 1
    /\ exception' = "APIError"
    /\ at' = "raised"
    /\ UNCHANGED <<config, issued, namespace, files, conversions, normVars, valVars, procVars>>

\* 2. slide content: send the content request
ContentStage ==
    /\ at = "slide_content"
    /\ issued' = Append(issued, request("slide_content", slide_content_user_prompt(namespace)))
    /\ outstanding' = outstanding + 1
    /\ at' = "await_slide_content"
    /\ UNCHANGED <<config, namespace, files, conversions, exception, normVars, valVars, procVars>>

\* save the slide content, then start the converter on the saved file
SaveSlideContent ==
    /\ at = "save_slide_content"
    /\ LET fs == [files EXCEPT ![slide_content_filename] = namespace["slide_content_response"]]
       IN /\ files' = fs
          /\ conversions' = Append(conversions, started(fs, slide_content_filename))
    /\ at' = "converting_slide_content"
    /\ UNCHANGED <<config, issued, outstanding, namespace, exception, normVars, valVars, procVars>>

\* the converter process ends inside convert_to_ppt
ConverterEnds ==
    /\ at \in {"converting_slide_content", "converting_final_content"}
    /\ \E outcome \in ConverterOutcomes :
          /\ conversions' = [conversions EXCEPT ![Len(conversions)].outcome = outcome]
          /\ exception' = convert_to_ppt(outcome)
          /\ at' = IF convert_to_ppt(outcome) # "none" THEN "raised"
                   ELSE IF at = "converting_slide_content" THEN "mermaid" ELSE "done"
    /\ UNCHANGED <<config, issued, outstanding, namespace, files, normVars, valVars, procVars>>

\* 3. diagrams: the examples are bound only under `if mermaid:`, the two prompts
\* and the insertion request are at module level
MermaidStage ==
    /\ at = "mermaid"
    /\ LET ns == IF config.mermaid
                 THEN [namespace EXCEPT !["few_shot_examples"] = PyStr("examples")]
                 ELSE namespace
       IN /\ namespace' = ns
          /\ IF raises_name_error(ns, <<"few_shot_examples">>)
             THEN /\ exception' = "NameError"
                  /\ at' = "raised"
                  /\ UNCHANGED <<issued, outstanding>>
             ELSE /\ issued' = Append(issued, request("mermaid_content", mermaid_user_prompt(ns)))
                  /\ outstanding' = outstanding + 1
                  /\ at' = "await_mermaid_content"
                  /\ UNCHANGED exception
    /\ UNCHANGED <<config, files, conversions, normVars, valVars, procVars>>

\* `if not mermaid:` saves and converts the insertion answer; 4. `if mermaid:`
\* sends the checker request
Branch ==
    /\ at = "branch"
    /\ IF ~config.mermaid
       THEN /\ LET fs == [files EXCEPT ![final_content_filename] = namespace["mermaid_content_response"]]
               IN /\ files' = fs
                  /\ conversions' = Append(conversions, started(fs, final_content_filename))
            /\ at' = "converting_final_content"
            /\ UNCHANGED <<issued, outstanding>>
       ELSE /\ issued' = Append(issued, request("checker_content", checker_user_prompt(namespace)))
            /\ outstanding' = outstanding + 1
            /\ at' = "await_checker_content"
            /\ UNCHANGED <<files, conversions>>
    /\ UNCHANGED <<config, namespace, exception, normVars, valVars, procVars>>

\* save the checked document, then start the converter on the saved file
SaveFinalContent ==
    /\ at = "save_final_content"
    /\ LET fs == [files EXCEPT ![final_content_filename] = namespace["checker_content_response"]]
       IN /\ files' = fs
          /\ conversions' = Append(conversions, started(fs, final_content_filename))
    /\ at' = "converting_final_content"
    /\ UNCHANGED <<config, issued, outstanding, namespace, exception, normVars, valVars, procVars>>

NextMain ==
    \/ StructureStage
    \/ GetResponseReturns
    \/ GetResponseRaises
    \/ ContentStage
    \/ SaveSlideContent
    \/ ConverterEnds
    \/ MermaidStage
    \/ Branch
    \/ SaveFinalContent

SpecMain == InitMain /\ [][NextMain]_vars

-----------------------------------------------------------------------------
(* Long documents: a marker-prefixed or plain head line, a run of filler    *)
(* lines, a bare marker line, so that the look-back of the legacy orphan    *)
(* pass is reached and passed                                               *)

MaxGap == 10

TaggedLine == <<BT, BT, BT, "p">>
Fill(line, g) == [i \in 1..g |-> line]
WindowDocuments ==
    {join(<<head>> \o Fill(filler, g) \o <<tail>> \o post) :
        head \in {OpenerLine, TaggedLine, BareLine, TextLine},
        filler \in {TextLine, BlankLine},
        g \in 0..MaxGap,
        tail \in {BareLine, IndentedBare},
        post \in {<<>>, <<TextLine>>}}

InitWindow ==
    /\ content \in WindowDocuments
    /\ version \in {"modules", "legacy"}
    /\ passes = <<>>
    /\ ValIdle
    /\ ProcIdle
    /\ MainIdle

SpecWindow == InitWindow /\ [][NextNorm]_vars

-----------------------------------------------------------------------------
(* Claims about the normalizer (SpecNorm)                                  *)

\* C1 (as claimed): normalization is idempotent, in both versions: the second
\* application returns what the first returned.
C1_Idempotent == Len(passes) = 2 => passes[2] = passes[1]

\* a is a subsequence of b
RECURSIVE IsSubseq(_, _)
IsSubseq(a, b) ==
    IF a = <<>> THEN TRUE
    ELSE IF b = <<>> THEN FALSE
    ELSE IF a[1] = b[1] THEN IsSubseq(Tail(a), Tail(b))
    ELSE IsSubseq(a, Tail(b))

\* The diagram block spans of C2 over the lines ls, scanned from line i: a span runs
\* from an opener line through the first following bare marker line and the bare
\* marker lines immediately after it. The result is the set of line numbers in a span.
RECURSIVE SpanLines(_, _)
SpanLines(ls, i) ==
    IF i > Len(ls) THEN {}
    ELSE IF ls[i] # OpenerLine THEN SpanLines(ls, i + 1)
    ELSE LET bare == {c \in (i + 1)..Len(ls) : ls[c] = BareLine}
         IN  IF bare = {} THEN {}
             ELSE LET c == Least(bare)
                      more == {d \in c..Len(ls) : \A x \in c..d : ls[x] = BareLine}
                      last == CHOOSE d \in more : \A x \in more : x <= d
                  IN  (i..last) \cup SpanLines(ls, last + 1)

\* the lines of ls outside every span, in order; with dropBare the lines that are a
\* bare marker after trimming (the candidates of the orphan deletion) are left out
OutsideLines(ls, dropBare) ==
    LET inSpan == SpanLines(ls, 1)
        RECURSIVE Out(_)
        Out(i) == IF i > Len(ls) THEN <<>>
                  ELSE (IF i \in inSpan \/ (dropBare /\ strip(ls[i]) = Marker)
                        THEN <<>> ELSE <<ls[i]>>) \o Out(i + 1)
    IN  Out(1)

\* C2 (as claimed): every line outside a diagram block span is in the output,
\* byte-identical and in the same order; the legacy version may besides delete
\* bare marker lines.
C2_NonInterference ==
    Len(passes) >= 1 =>
        IsSubseq(OutsideLines(split(content), version = "legacy"), split(passes[1]))

\* C2, the legacy version alone
C2_NonInterferenceLegacy == version = "legacy" => C2_NonInterference

IsBlankLine(l) == \A k \in 1..Len(l) : l[k] = " "
LStrip(l) == IF IsBlankLine(l) THEN <<>>
             ELSE SubSeq(l, Least({k \in 1..Len(l) : l[k] # " "}), Len(l))
RStrip(l) == IF IsBlankLine(l) THEN <<>>
             ELSE LET ks == {k \in 1..Len(l) : l[k] # " "}
                  IN  SubSeq(l, 1, CHOOSE k \in ks : \A j \in ks : j <= k)

\* inner lines with the blank lines at both ends dropped, the first line's
\* indentation and the last line's trailing spaces removed; one empty line when
\* nothing is left
TrimmedInner(inner) ==
    LET ks == {k \in 1..Len(inner) : ~IsBlankLine(inner[k])}
    IN  IF ks = {} THEN << <<>> >>
        ELSE LET lo == Least(ks)
                 hi == CHOOSE k \in ks : \A j \in ks : j <= k
             IN  [k \in 1..(hi - lo + 1) |->
                    LET l  == inner[lo + k - 1]
                        l1 == IF k = 1 THEN LStrip(l) ELSE l
                    IN  IF k = hi - lo + 1 THEN RStrip(l1) ELSE l1]

\* The documents of C3: the lines are one opener, inner lines none of which begins
\* with the marker after trimming, exactly three bare marker lines, then nothing or
\* one line of text. TripleCloser gives the inner lines and what follows the block.
TripleCloser ==
    LET ls == split(content)
        bare == {c \in 2..Len(ls) : ls[c] = BareLine}
        f == Least(bare)
    IN  IF /\ ls[1] = OpenerLine
           /\ bare # {}
           /\ f + 2 <= Len(ls)
           /\ ls[f + 1] = BareLine /\ ls[f + 2] = BareLine
           /\ SubSeq(ls, f + 3, Len(ls)) \in {<<>>, <<TextLine>>}
           /\ \A k \in 2..(f - 1) : ~startswith(strip(ls[k]), Marker)
        THEN [is |-> TRUE, inner |-> SubSeq(ls, 2, f - 1), post |-> SubSeq(ls, f + 3, Len(ls))]
        ELSE [is |-> FALSE]

-----------------------------------------------------------------------------
(* Claims about the validator (SpecVal)                                    *)

\* how the claims read a line: by its trimmed form
LineKind(l) ==
    LET t == strip(l)
    IN  IF t = SeparatorLit THEN "sep"
        ELSE IF startswith(t, NotesOpenLit) THEN "open"
        ELSE IF t = NotesCloseLit THEN "close"
        ELSE "other"

VLines == split(vcontent)
\* the kind of every line of the validated document
Kinds == [i \in 1..Len(VLines) |-> LineKind(VLines[i])]
\* In what follows k is such a function of kinds.
\* the line numbers of separators, notes-open directives and close directives
Events(k) == {i \in DOMAIN k : k[i] # "other"}
\* i and j are events with no event strictly between them
Adjacent(k, i, j) == i < j /\ \A x \in (i + 1)..(j - 1) : k[x] = "other"
SeparatorsBefore(k, n) == Cardinality({i \in 1..(n - 1) : k[i] = "sep"})

\* the event at i is a notes-open directly followed by its close directive, or a
\* close directive directly preceded by its notes-open
Matched(k, i) ==
    /\ k[i] = "open"  => \E j \in Events(k) : Adjacent(k, i, j) /\ k[j] = "close"
    /\ k[i] = "close" => \E j \in Events(k) : Adjacent(k, j, i) /\ k[j] = "open"

\* every notes-open has exactly one close before the next separator and the end of
\* the document, and there is no other close directive
AllNotesClosed(k) == \A i \in Events(k) : Matched(k, i)

\* C7: a document in which every notes-open directive is matched by exactly one close
\* directive before the next separator, with no other close directive, is reported
\* valid with an empty error list.
C7_ValidatorCompleteness ==
    (report.type = "tuple" /\ AllNotesClosed(Kinds)) => report.val = <<TRUE, <<>>>>

\* C7 witness: two slides, each with a closed notes region, have been validated
C7_Witness ==
    /\ report.type = "tuple"
    /\ report.val = <<TRUE, <<>>>>
    /\ VLines = <<NotesLine, PaddedCloseLine, SeparatorLine, TitledNotesLine, CloseLine>>

\* the last event is a notes-open directive and every other event is matched
UnclosedAtEnd(k) ==
    /\ Events(k) # {}
    /\ LET e == CHOOSE i \in Events(k) : \A j \in Events(k) : j <= i
       IN  /\ k[e] = "open"
           /\ \A i \in Events(k) \ {e} : Matched(k, i)

\* C8: an otherwise well-formed document whose last slide has a notes-open directive
\* with no later close directive yields exactly one violation, the end-of-document
\* one, with slide number 1 + the number of separator lines.
C8_UnclosedAtEndOfDocument ==
    (report.type = "tuple" /\ UnclosedAtEnd(Kinds)) =>
        report.val = <<FALSE, << [slide |-> 1 + SeparatorsBefore(Kinds, Len(VLines) + 1),
                                  text |-> MsgEndOfDoc] >> >>

\* C8 witness: the second slide of a validated document ends inside an open notes region
C8_Witness ==
    /\ report.type = "tuple"
    /\ VLines = <<NotesLine, CloseLine, SeparatorLine, TextLine, NotesLine>>
    /\ report.val = <<FALSE, << [slide |-> 2, text |-> MsgEndOfDoc] >> >>

\* the separator at line i follows a notes-open directive with no close directive
\* (and no other separator) in between
Leaks(k, i) ==
    /\ k[i] = "sep"
    /\ \E j \in 1..(i - 1) :
          /\ k[j] = "open"
          /\ \A x \in (j + 1)..(i - 1) : k[x] \in {"open", "other"}

ErrorSet == {report.val[2][n] : n \in 1..Len(report.val[2])}

\* C9: a separator that follows an unclosed notes-open directive yields a "not closed
\* before slide separator" violation at the separator's line, with the slide number
\* the directive was opened in; the notes state is closed after the separator, and a
\* notes-open directive that comes next raises no "already open" violation.
C9_CrossSlideLeakage ==
    report.type = "tuple" =>
        LET k == Kinds
            errs == ErrorSet
        IN  \A i \in DOMAIN k : Leaks(k, i) =>
                /\ [slide |-> 1 + SeparatorsBefore(k, i), text |-> MsgSeparator, line |-> i] \in errs
                /\ ~ValidateLoop(VLines, i).notes_open
                /\ \A j \in Events(k) : (Adjacent(k, i, j) /\ k[j] = "open") =>
                      \A e \in errs : ~(e.text = MsgAlreadyOpen /\ e.line = j)

\* C9 witness: notes opened in slide 2 leak over the second separator, and slide 3
\* opens notes again
C9_Witness ==
    /\ report.type = "tuple"
    /\ VLines = <<SeparatorLine, NotesLine, SeparatorLine, NotesLine, CloseLine>>
    /\ report.val = <<FALSE, << [slide |-> 2, text |-> MsgSeparator, line |-> 3] >> >>

\* notes are open when line i is met: the last directive or separator above it
\* is a notes-open directive
OpenBefore(k, i) ==
    \E j \in 1..(i - 1) :
        /\ k[j] = "open"
        /\ \A x \in (j + 1)..(i - 1) : k[x] \in {"open", "other"}

\* the positions in the error list of the violations raised at line i
ErrorsAtLine(errors, i) ==
    {n \in 1..Len(errors) : errors[n].text # MsgEndOfDoc /\ errors[n].line = i}
HasEndOfDocError(errors) == \E n \in 1..Len(errors) : errors[n].text = MsgEndOfDoc

\* C19: a notes-open directive met while notes are open raises exactly one violation,
\* "already open", and notes stay open; one close directive after it closes them
\* without a violation, so that a separator or the end of the document coming next
\* raises nothing, and a second close directive coming next raises "closing
\* without opening".
C19_RepeatedOpensDoNotNest ==
    report.type = "tuple" =>
        LET k == Kinds
            lines == VLines
            errors == report.val[2]
            slide(i) == 1 + SeparatorsBefore(k, i)
        IN  \A i \in DOMAIN k : (k[i] = "open" /\ OpenBefore(k, i)) =>
                /\ Cardinality(ErrorsAtLine(errors, i)) = 1
                /\ \A n \in ErrorsAtLine(errors, i) :
                      errors[n] = [slide |-> slide(i), text |-> MsgAlreadyOpen, line |-> i]
                /\ ValidateLoop(lines, i).notes_open
                /\ \A j \in Events(k) : (Adjacent(k, i, j) /\ k[j] = "close") =>
                      /\ ErrorsAtLine(errors, j) = {}
                      /\ ~ValidateLoop(lines, j).notes_open
                      /\ (\A x \in Events(k) : x <= j) => ~HasEndOfDocError(errors)
                      /\ \A j2 \in Events(k) : Adjacent(k, j, j2) =>
                            /\ k[j2] = "sep" => ErrorsAtLine(errors, j2) = {}
                            /\ k[j2] = "close" =>
                                  \E n \in ErrorsAtLine(errors, j2) :
                                      errors[n] = [slide |-> slide(j2), text |-> MsgNoOpening,
                                                   line |-> j2]

\* C19 witness: notes opened twice, then closed twice, in one slide
C19_Witness ==
    /\ report.type = "tuple"
    /\ VLines = <<NotesLine, TitledNotesLine, CloseLine, CloseLine>>
    /\ report.val = <<FALSE, << [slide |-> 1, text |-> MsgAlreadyOpen, line |-> 2],
                                [slide |-> 1, text |-> MsgNoOpening, line |-> 4] >> >>

\* C20: a close directive met while no notes are open in its slide raises exactly
\* one violation at its line, "closing without opening", and notes stay closed; a
\* close directive met while notes are open raises nothing and closes them.
C20_UnmatchedCloser ==
    report.type = "tuple" =>
        LET k == Kinds
            lines == VLines
            errors == report.val[2]
        IN  \A i \in DOMAIN k : k[i] = "close" =>
                /\ ~ValidateLoop(lines, i).notes_open
                /\ IF OpenBefore(k, i)
                   THEN ErrorsAtLine(errors, i) = {}
                   ELSE /\ Cardinality(ErrorsAtLine(errors, i)) = 1
                        /\ \A n \in ErrorsAtLine(errors, i) :
                              errors[n] = [slide |-> 1 + SeparatorsBefore(k, i),
                                           text |-> MsgNoOpening, line |-> i]

\* C20 witness: a closer after a separator that closed a leaked region, then a
\* region opened and closed in the second slide
C20_Witness ==
    /\ report.type = "tuple"
    /\ VLines = <<NotesLine, SeparatorLine, CloseLine, NotesLine, PaddedCloseLine>>
    /\ report.val = <<FALSE, << [slide |-> 1, text |-> MsgSeparator, line |-> 2],
                                [slide |-> 2, text |-> MsgNoOpening, line |-> 3] >> >>

\* C21: the report is the one validate_notes_closure computes from the document
\* whenever it is asked, and validating leaves the document as it was; the
\* violations raised at lines come in strictly ascending line order, so at most
\* one per line, with the end-of-document violation, if any, last; is_valid is
\* True exactly when the list is empty.
C21_OrderedReport ==
    report.type = "tuple" =>
        LET errors == report.val[2]
            n == Len(errors)
        IN  /\ report.val = validate_notes_closure(vcontent)
            /\ \A a \in 1..n : errors[a].text = MsgEndOfDoc => a = n
            /\ \A a \in 1..n, b \in 1..n :
                  (a < b /\ errors[b].text # MsgEndOfDoc) => errors[a].line < errors[b].line
            /\ \A a \in 1..n : errors[a].text # MsgEndOfDoc => errors[a].line \in 1..Len(VLines)
            /\ report.val[1] = (n = 0)
\* C21, over a run: every report is ordered as above, and the step that
\* validates changes nothing but the report, which is a function of the document
C21_ReportOrderAndDeterminism ==
    /\ []C21_OrderedReport
    /\ [][/\ vcontent' = vcontent
          /\ report' = PyTuple(validate_notes_closure(vcontent))]_vars

\* C21 witness: a report with two line violations and the end-of-document one
C21_Witness ==
    /\ report.type = "tuple"
    /\ VLines = <<CloseLine, NotesLine, TitledNotesLine>>
    /\ report.val = <<FALSE, << [slide |-> 1, text |-> MsgNoOpening, line |-> 1],
                                [slide |-> 1, text |-> MsgAlreadyOpen, line |-> 3],
                                [slide |-> 1, text |-> MsgEndOfDoc] >> >>

\* C22: the slide counter is 1 + the number of separator lines met so far, whether
\* or not notes were open at them: a violation raised at line n carries 1 + the
\* number of separators strictly before n, the end-of-document violation 1 + the
\* number of all separators.
C22_SlideIndex ==
    report.type = "tuple" =>
        LET k == Kinds
            lines == VLines
            errors == report.val[2]
        IN  /\ ValidateLoop(lines, 0).slide_number = 1
            /\ \A n \in DOMAIN k :
                  ValidateLoop(lines, n).slide_number = 1 + SeparatorsBefore(k, n + 1)
            /\ \A a \in 1..Len(errors) :
                  errors[a].slide =
                      IF errors[a].text = MsgEndOfDoc
                      THEN 1 + SeparatorsBefore(k, Len(lines) + 1)
                      ELSE 1 + SeparatorsBefore(k, errors[a].line)

\* C22 witness: violations in the second and third slide, after a separator met
\* with notes closed and one met with notes open
C22_Witness ==
    /\ report.type = "tuple"
    /\ VLines = <<SeparatorLine, NotesLine, SeparatorLine, CloseLine, NotesLine>>
    /\ report.val = <<FALSE, << [slide |-> 2, text |-> MsgSeparator, line |-> 3],
                                [slide |-> 3, text |-> MsgNoOpening, line |-> 4],
                                [slide |-> 3, text |-> MsgEndOfDoc] >> >>

\* the reference definition of C29. The slides of a document are the maximal runs
\* of lines between separator lines and the ends of the document; Bounds holds the
\* separator lines and the two ends
SlideBounds(k) == {0, Len(k) + 1} \cup {i \in DOMAIN k : k[i] = "sep"}
\* the notes directives of the lines a + 1 .. b - 1, in order
RECURSIVE Directives(_, _, _)
Directives(k, a, b) ==
    IF a + 1 >= b THEN <<>>
    ELSE (IF k[a + 1] \in {"open", "close"} THEN <<k[a + 1]>> ELSE <<>>) \o Directives(k, a + 1, b)
\* open, close, open, close, ...: starts with an open, ends with a close
Alternates(d) ==
    /\ Len(d) % 2 = 0
    /\ \A n \in 1..Len(d) : d[n] = IF n % 2 = 1 THEN "open" ELSE "close"
EverySlideAlternates(k) ==
    \A a \in SlideBounds(k), b \in SlideBounds(k) :
        (a < b /\ \A x \in SlideBounds(k) : ~(a < x /\ x < b)) => Alternates(Directives(k, a, b))

\* what the loop does with a line of the given kind
HandlerOf(kind, st, i) ==
    CASE kind = "sep" -> on_separator(st, i)
      [] kind = "open" -> on_notes_open(st, i)
      [] kind = "close" -> on_notes_close(st, i)
      [] OTHER -> st

\* C29: is_valid is True exactly when in every slide the notes-open and the close
\* directives alternate, starting with an open and ending with a close; and what
\* the loop does at a line is fixed by the kind of that line alone.
C29_ValidatorSoundness ==
    report.type = "tuple" =>
        LET k == Kinds
            lines == VLines
        IN  /\ report.val[1] <=> EverySlideAlternates(k)
            /\ \A i \in DOMAIN k :
                  ValidateLoop(lines, i) = HandlerOf(k[i], ValidateLoop(lines, i - 1), i)

\* C29 witness: a document in which every slide has as many opens as closes, but
\* the second slide closes before it opens, is reported invalid
C29_Witness ==
    /\ report.type = "tuple"
    /\ VLines = <<NotesLine, CloseLine, SeparatorLine, CloseLine, NotesLine>>
    /\ ~EverySlideAlternates(Kinds)
    /\ ~report.val[1]

-----------------------------------------------------------------------------
(* Claim about the end-to-end scenario (SpecScenario)                      *)

\* how many lines of ls are an opener, and how many are another line that begins
\* with the marker after trimming
CountOpeners(ls) == Cardinality({i \in 1..Len(ls) : ls[i] = OpenerLine})
CountOtherMarkers(ls) ==
    Cardinality({i \in 1..Len(ls) : ls[i] # OpenerLine /\ startswith(strip(ls[i]), Marker)})

\* C4 (as claimed): wherever the stray bare marker line stands inside the block, the
\* normalized document has one opener line and, besides it, a single marker line
\* (the closer), and validate_notes_closure returns (True, []) on it.
C4_EndToEnd ==
    report.type = "tuple" =>
        /\ CountOpeners(split(passes[1])) = 1
        /\ CountOtherMarkers(split(passes[1])) = 1
        /\ report.val = <<TRUE, <<>>>>

-----------------------------------------------------------------------------
(* Claims about the pipeline (SpecProc)                                    *)

\* C5 (as claimed): the final_content returned is the text clean_mermaid_blocks makes
\* of the text the validation call returned.
C5_FinalContentIsDocument ==
    pc = "returned" =>
        /\ returned.val[2].type = "str"
        /\ returned.val[2].val = clean_mermaid_blocks(responses[2].text)

C10_FailurePropagates ==
    \A k \in 1..Len(responses) : ~responses[k].ok =>
        /\ pc = "raised"
        /\ returned = NoValue
        /\ final_content = NoValue
        /\ k = Len(responses)
        /\ Len(requests) = k
        /\ requests[1].context = GenerationContext
        /\ k = 1 => enhanced_content = NoValue
        /\ k = 2 => requests[2].context = ValidationContext

\* C10 witness: the validation call failed after a successful insertion call
C10_Witness ==
    /\ pc = "raised"
    /\ Len(responses) = 2
    /\ responses[1].ok
    /\ ~responses[2].ok

\* C15: the usage statistics process_mermaid_diagrams returns carry the usage
\* records of the two calls as the service gave them, total_tokens is the sum of
\* their total_tokens, and the total is at least each part.
C15_TokenAccounting ==
    pc = "returned" =>
        LET usage_stats == returned.val[3]
        IN  /\ usage_stats.generation = responses[1].usage
            /\ usage_stats.validation = responses[2].usage
            /\ usage_stats.total_tokens =
                  responses[1].usage.total_tokens + responses[2].usage.total_tokens
            /\ usage_stats.total_tokens >= usage_stats.generation.total_tokens
            /\ usage_stats.total_tokens >= usage_stats.validation.total_tokens

\* C15 witness: a run returned whose two calls used different, positive token counts
C15_Witness ==
    /\ pc = "returned"
    /\ responses[1].usage.total_tokens = 1
    /\ responses[2].usage.total_tokens = 2
    /\ returned.val[3].total_tokens = 3

\* the lines of ls that begin with the marker, after trimming
CountMarkerLines(ls) == Cardinality({i \in 1..Len(ls) : startswith(strip(ls[i]), Marker)})

\* the opener lines of ls after which no line begins with the marker
UnterminatedOpeners(ls) ==
    {j \in 1..Len(ls) :
        /\ ls[j] = OpenerLine
        /\ \A k \in (j + 1)..Len(ls) : ~startswith(ls[k], Marker)}

\* C16: when no line after a mermaid opener line begins with the marker, the
\* output ends with that opener line and the lines after it, unchanged, so no
\* closer is added; and no output has more marker lines than its input.
C16_UnterminatedLeftAlone ==
    Len(passes) >= 1 =>
        LET ls  == split(content)
            out == split(passes[1])
        IN  /\ \A j \in UnterminatedOpeners(ls) :
                  /\ Len(out) >= Len(ls) - j + 1
                  /\ SubSeq(out, Len(out) - (Len(ls) - j), Len(out)) = SubSeq(ls, j, Len(ls))
            /\ CountMarkerLines(out) <= CountMarkerLines(ls)

\* the block the pattern recognizes at the first line of ls: an opener line, and
\* the first line from the third on that begins with the marker as its closer;
\* the inner lines are the lines between them
FirstBlock(ls) ==
    LET closers == {c \in 3..Len(ls) : startswith(ls[c], Marker)}
    IN  IF Len(ls) >= 1 /\ ls[1] = OpenerLine /\ closers # {}
        THEN [is |-> TRUE, inner |-> SubSeq(ls, 2, Least(closers) - 1)]
        ELSE [is |-> FALSE]

\* the lines of inner whose trimmed form does not begin with the marker
KeptInner(inner) ==
    LET RECURSIVE Keep(_)
        Keep(i) == IF i > Len(inner) THEN <<>>
                   ELSE (IF startswith(strip(inner[i]), Marker) THEN <<>> ELSE <<inner[i]>>)
                        \o Keep(i + 1)
    IN  Keep(1)

\* C17 (as claimed): the rewritten block holds, between its opener and its closer,
\* exactly the inner lines whose trimmed form does not begin with the marker, in
\* their order and unchanged, indentation and blank border lines included.
C17_InnerContentPreserved ==
    Len(passes) >= 1 /\ FirstBlock(split(content)).is =>
        LET kept == KeptInner(FirstBlock(split(content)).inner)
            out  == split(passes[1])
        IN  /\ Len(out) >= Len(kept) + 2
            /\ out[1] = OpenerLine
            /\ SubSeq(out, 2, Len(kept) + 1) = kept
            /\ startswith(out[Len(kept) + 2], Marker)

\* in ls a bare closer line is followed, directly or after blank lines only, by a
\* mermaid opener line
CloserThenOpener(ls) ==
    \E c \in 1..Len(ls), o \in 1..Len(ls) :
        /\ c < o
        /\ ls[c] = BareLine
        /\ ls[o] = OpenerLine
        /\ \A x \in (c + 1)..(o - 1) : IsBlankLine(ls[x])

\* the document starts with a diagram block (opener, inner lines, bare closer)
\* whose closer is followed, directly or after blank lines only, by an opener line
BlockThenOpener(ls) ==
    /\ FirstBlock(ls).is
    /\ LET c == Len(FirstBlock(ls).inner) + 2
       IN  /\ ls[c] = BareLine
           /\ \E o \in (c + 1)..Len(ls) :
                 /\ ls[o] = OpenerLine
                 /\ \A x \in (c + 1)..(o - 1) : IsBlankLine(ls[x])

\* C26 (as claimed): when the closer of a diagram block is followed, directly or
\* after blank lines only, by the opener line of the next block, the output still
\* has a closer line followed in the same way by that opener line.
C26_AdjacentBlocksSurvive ==
    Len(passes) >= 1 /\ BlockThenOpener(split(content)) => CloserThenOpener(split(passes[1]))

\* the line numbers of ls that begin, trimmed, with the marker, in ascending order
MarkerLines(ls) ==
    LET RECURSIVE From(_)
        From(i) == IF i > Len(ls) THEN <<>>
                   ELSE (IF startswith(strip(ls[i]), Marker) THEN <<i>> ELSE <<>>) \o From(i + 1)
    IN  From(1)

\* the only marker lines are mermaid openers, each matched by one bare closer; no
\* block has a blank first or last inner line; a non-marker line stands between
\* two blocks
WellFormed(ls) ==
    LET m == MarkerLines(ls)
    IN  /\ Len(m) % 2 = 0
        /\ \A n \in 1..Len(m) : ls[m[n]] = IF n % 2 = 1 THEN OpenerLine ELSE BareLine
        /\ \A n \in 1..Len(m) : n % 2 = 1 =>
              /\ m[n] + 1 < m[n + 1]
              /\ ~IsBlankLine(ls[m[n] + 1])
              /\ ~IsBlankLine(ls[m[n + 1] - 1])
        /\ \A n \in 2..(Len(m) - 1) : n % 2 = 0 => m[n] + 1 < m[n + 1]

\* C27 (as claimed): the legacy normalizer returns a well-formed document
\* unchanged, whatever the number of inner lines of its blocks.
C27_WellFormedFixedPoint ==
    (version = "legacy" /\ Len(passes) >= 1 /\ WellFormed(split(content))) => passes[1] = content

\* the orphan pass as C18 states it: a bare marker line i goes exactly when none
\* of the lines i - LookBack .. i - 1 that exist begins, trimmed, with the marker
ClaimedOrphanPass(lines) ==
    LET near(i) == {j \in (i - LookBack)..(i - 1) : j >= 1}
        orphan(i) ==
            /\ strip(lines[i]) = Marker
            /\ \A j \in near(i) : ~startswith(strip(lines[j]), Marker)
        RECURSIVE Keep(_)
        Keep(i) == IF i > Len(lines) THEN <<>>
                   ELSE (IF orphan(i) THEN <<>> ELSE <<lines[i]>>) \o Keep(i + 1)
    IN  Keep(1)

\* C18 (as claimed): the legacy orphan pass deletes a bare marker line exactly
\* when none of the previous 10 lines begins, after trimming, with the marker; a
\* bare marker whose nearest marker-prefixed line is 10 lines above is kept.
C18_OrphanLookBack ==
    version = "legacy" /\ Len(passes) >= 1 =>
        passes[1] = join(ClaimedOrphanPass(split(re_sub("legacy", content, 1))))

\* C28 (as claimed): the output of the legacy normalizer holds no orphan: running
\* the orphan pass on it again deletes nothing.
C28_NoOrphanSurvives ==
    (version = "legacy" /\ Len(passes) >= 1) => remove_orphans(passes[1]) = passes[1]

C15_LegacyTokenAccounting ==
    pc = "returned" =>
        LET usage_stats == returned.val[2]
        IN  /\ usage_stats.generation = responses[1].usage
            /\ usage_stats.validation = responses[2].usage
            /\ usage_stats.total_tokens =
                  responses[1].usage.total_tokens + responses[2].usage.total_tokens

\* the position in the trace of the first entry of the given kind, 0 if none
FirstStep(event) ==
    IF \E n \in 1..Len(trace) : trace[n].event = event
    THEN Least({n \in 1..Len(trace) : trace[n].event = event})
    ELSE 0
StepsOf(event) == {n \in 1..Len(trace) : trace[n].event = event}

\* C23 (as claimed): a run of process_mermaid_diagrams that returns has issued
\* exactly two requests, the second embeds the text the first returned as it was,
\* and the normalizer has run only on the text the second request returned.
C23_ValidationInput ==
    pc = "returned" =>
        /\ Len(requests) = 2
        /\ requests[1].context = GenerationContext
        /\ requests[2].context = ValidationContext
        /\ requests[2].embedded = responses[1].text
        /\ StepsOf("clean_mermaid_blocks") # {}
        /\ \A n \in StepsOf("clean_mermaid_blocks") :
              /\ n > FirstStep(ValidationContext)
              /\ trace[n].input = responses[2].text

\* C24 (as claimed): a run that returns went through insertion request,
\* normalizer on the insertion answer, validation request, normalizer on the
\* validation answer, structural validator, in this order.
C24_FiveSteps ==
    pc = "returned" =>
        /\ [n \in 1..Len(trace) |-> trace[n].event] =
              <<GenerationContext, "clean_mermaid_blocks", ValidationContext,
                "clean_mermaid_blocks", "validate_notes_closure">>
        /\ trace[2].input = responses[1].text
        /\ trace[4].input = responses[2].text

\* C25: once both calls have returned, the structural validator has run on the
\* normalized validation answer, as the last step, and process_mermaid_diagrams
\* has returned, whatever the report says.
C25_ValidationAdvisory ==
    (Len(responses) = 2 /\ responses[1].ok /\ responses[2].ok) =>
        /\ pc = "returned"
        /\ returned.type = "tuple"
        /\ trace[Len(trace)] =
              step("validate_notes_closure", clean_mermaid_blocks(responses[2].text))

\* C25 witness: the run returned although the validator found the notes of the
\* validation answer unclosed
C25_Witness ==
    /\ pc = "returned"
    /\ responses[2].text = NotesDocOpen
    /\ ~validate_notes_closure(trace[Len(trace)].input)[1]
    /\ returned # NoValue

-----------------------------------------------------------------------------
(* Claims about the script (SpecMain)                                      *)

NothingSupplied == ~truthy(config.user_prompt) /\ ~truthy(config.markdown_path)

\* C11 (as claimed): when neither a prompt nor a reference path is supplied the
\* run ends with a configuration error before any request is issued, and never
\* goes on with the prompt and the reference content both empty.
C11_ConfigurationGuard ==
    NothingSupplied /\ at # "slide_structure" =>
        /\ issued = <<>>
        /\ at = "raised"
        /\ exception = "ConfigurationError"

\* C12 (as claimed): a run whose requests are all answered completes; with the
\* switch off it completes after exactly the outline and the content request, with
\* the switch on after exactly those two, the insertion and the checker request.
StagesOff == <<"slide_structure", "slide_content">>
StagesOn  == <<"slide_structure", "slide_content", "mermaid_content", "checker_content">>
StagesIssued == [i \in 1..Len(issued) |-> issued[i].stage]
C12_CallAccounting ==
    /\ at = "raised" => exception = "APIError"
    /\ at = "done" => StagesIssued = IF config.mermaid THEN StagesOn ELSE StagesOff

\* C13: convert_to_ppt lets neither a missing converter nor a non-zero exit out,
\* the script goes on after a failed conversion, and every converter run finds
\* under its input name the text written for it just before.
ConverterFailures == {"FileNotFoundError", "CalledProcessError"}
WrittenFor(input) ==
    IF input = slide_content_filename THEN namespace["slide_content_response"]
    ELSE IF config.mermaid THEN namespace["checker_content_response"]
    ELSE namespace["mermaid_content_response"]
C13_ConverterFailureContained ==
    /\ exception \notin ConverterFailures
    /\ \A i \in 1..Len(conversions) :
          /\ conversions[i].found # NoValue
          /\ conversions[i].found = WrittenFor(conversions[i].input)
          /\ conversions[i].found = files[conversions[i].input]
          /\ conversions[i].outcome \in ConverterFailures =>
                /\ at \notin {"converting_slide_content", "converting_final_content"} \/ i < Len(conversions)
                /\ at = "raised" => exception \in {"NameError", "APIError"}

\* a run that reached its end although both conversions failed
C13_Witness ==
    /\ at = "done"
    /\ Len(conversions) = 2
    /\ conversions[1].outcome = "FileNotFoundError"
    /\ conversions[2].outcome = "CalledProcessError"

\* C14: the requests go out in the order outline, content, insertion, checker,
\* each one only after the answer to the one before is bound and with that
\* answer embedded in its user prompt, and never more than one awaits its answer.
Bound(n) == namespace[n] # NoValue
C14_StageOrdering ==
    /\ outstanding \in {0, 1}
    /\ outstanding = 1 <=> at \in Awaiting
    /\ \A i \in 1..Len(issued) : issued[i].stage = StagesOn[i]
    /\ Len(issued) >= 2 =>
          /\ Bound("slide_structure_response")
          /\ issued[2].user[1] = namespace["slide_structure_response"].val
    /\ Len(issued) >= 3 =>
          /\ Bound("slide_content_response")
          /\ issued[3].user = <<namespace["slide_content_response"].val>>
    /\ Len(issued) >= 4 =>
          /\ Bound("mermaid_content_response")
          /\ issued[4].user = <<namespace["mermaid_content_response"].val>>

\* a full run in which neighbouring stages were answered differently
C14_Witness ==
    /\ at = "done"
    /\ Len(issued) = 4
    /\ namespace["slide_structure_response"] # namespace["slide_content_response"]
    /\ namespace["slide_content_response"] # namespace["mermaid_content_response"]
    /\ issued[2].user[1] # issued[3].user[1]

\* the same ordering inside process_mermaid_diagrams (SpecProc): the validation
\* request goes out only after the generation answer and embeds it
C14_ProcessorOrdering ==
    /\ Len(requests) <= Len(responses) + 1
    /\ Len(requests) = 2 =>
          /\ responses[1].ok
          /\ requests[2].embedded = responses[1].text

=============================================================================
